---- MODULE Spec2Model ----
(***************************************************************************)
(* Model of src/main.cpp: the demux/decode driver demuxer_decode with its  *)
(* helpers decode_packet, output_video_frame, output_audio_frame,          *)
(* open_codec_context and get_format_from_sample_fmt.                      *)
(*                                                                         *)
(* The libav* engines and libc are collaborators: their results are drawn  *)
(* nondeterministically at the call sites of the source.                   *)
(***************************************************************************)
EXTENDS Integers, Sequences, FiniteSets, TLC

(* ------------------------------ bounds --------------------------------- *)
\* packets the input container holds at most
MaxPackets == 4
\* frames a decoder holds internally at most (reordering / multi-frame packets)
MaxHeld == 2
\* samples per audio frame at most
MaxSamples == 2
\* channels per audio frame at most
MaxChannels == 3

\* the frame cap of `if(frame_nums>=300)`: 300 in the source, a small value
\* here so that the cap is reached within MaxPackets packets; every formula
\* is stated over FrameCap
FrameCap == 2
\* flush sentinels submitted to one decoder when decode_packet is exercised
\* on its own
MaxFlushes == 3
\* packets an input container of the container-writing modes holds at most
MaxRemuxPackets == 5
\* stands for the 100 of line 591: packets with a lower ordinal are skipped
SkipBelow == 2
\* stands for the 10000 of line 592: the loop stops at this ordinal
StopAt == 4

(* ------------------------- program constants --------------------------- *)
\* errno values and libav error codes used at the call sites
EAGAIN == 11
EINVAL == 22
ENOMEM == 12
AVERROR_EOF == -541478725
AVERROR_INVALIDDATA == -1094995529
AVERROR_STREAM_NOT_FOUND == -1381258232
AVERROR(e) == -e

\* stream indices of the modelled container: one video, one audio and one
\* stream of another kind (subtitle/data)
VideoIdx == 0
AudioIdx == 1
OtherIdx == 2

(* ----------------------- libavutil pure helpers ------------------------ *)
PackedFormats == {"u8", "s16", "s32", "flt", "dbl", "s64"}
PlanarFormats == {"u8p", "s16p", "s32p", "fltp", "dblp", "s64p"}
SampleFormats == PackedFormats \cup PlanarFormats

av_sample_fmt_is_planar(fmt) == fmt \in PlanarFormats

av_get_bytes_per_sample(fmt) ==
    CASE fmt \in {"u8", "u8p"} -> 1
      [] fmt \in {"s16", "s16p"} -> 2
      [] fmt \in {"s32", "s32p", "flt", "fltp"} -> 4
      [] fmt \in {"dbl", "dblp", "s64", "s64p"} -> 8
      [] OTHER -> 0

av_get_packed_sample_fmt(fmt) ==
    CASE fmt = "u8p" -> "u8"
      [] fmt = "s16p" -> "s16"
      [] fmt = "s32p" -> "s32"
      [] fmt = "fltp" -> "flt"
      [] fmt = "dblp" -> "dbl"
      [] fmt = "s64p" -> "s64"
      [] OTHER -> fmt

\* the table of get_format_from_sample_fmt: 0 when the format has an entry,
\* -1 otherwise
get_format_from_sample_fmt(sample_fmt) ==
    IF sample_fmt \in {"u8", "s16", "s32", "flt", "dbl"} THEN 0 ELSE -1

\* the packed (align 1) image size av_image_alloc returns
ImageBufferSize(w, h, fmt) ==
    CASE fmt = "yuv420p" -> w * h + 2 * (((w + 1) \div 2) * ((h + 1) \div 2))
      [] fmt = "rgb24" -> 3 * w * h
      [] OTHER -> 0

\* geometries a decoder context or a decoded frame may carry: a base and
\* one alteration of each of width, height and pixel format
Geometries ==
    { [width |-> 2, height |-> 2, format |-> "yuv420p"],
      [width |-> 4, height |-> 2, format |-> "yuv420p"],
      [width |-> 2, height |-> 4, format |-> "yuv420p"],
      [width |-> 2, height |-> 2, format |-> "rgb24"] }

(* --------------------------- frames and files -------------------------- *)
\* the AVFrame fields the program reads
MkFrame(st, w, h, fmt, n, ch) ==
    [st |-> st, width |-> w, height |-> h, format |-> fmt,
     nb_samples |-> n, channels |-> ch]
BlankFrame(st) == MkFrame(st, 0, 0, "none", 0, 0)
VideoFrame(g) == MkFrame("live", g.width, g.height, g.format, 0, 0)
AudioFrame(fmt, n, ch) == MkFrame("live", 0, 0, fmt, n, ch)

\* frame->extended_data[0]: for a planar format the samples of channel 0,
\* for a packed format the interleaved samples of all channels.  A byte is
\* tagged with the channel, sample and byte position it belongs to.
ExtendedData0(f) ==
    LET bps == av_get_bytes_per_sample(f.format) IN
    IF av_sample_fmt_is_planar(f.format)
    THEN [i \in 1..(f.nb_samples * bps) |->
            [ch |-> 0, sample |-> (i - 1) \div bps, byte |-> (i - 1) % bps]]
    ELSE [i \in 1..(f.nb_samples * f.channels * bps) |->
            [ch |-> ((i - 1) \div bps) % f.channels,
             sample |-> (i - 1) \div (bps * f.channels),
             byte |-> (i - 1) % bps]]

\* a FILE*: "null", "open" or "closed", with the data appended so far
NullFile == [st |-> "null", data |-> << >>]
OpenFile == [st |-> "open", data |-> << >>]
\* fwrite(ptr, 1, n, file): n bytes starting at ptr are appended; bytes read
\* past the end of the buffer are whatever lies behind it
Garbage == [ch |-> -1, sample |-> -1, byte |-> -1]
Fwrite(buf, n, file) ==
    [file EXCEPT !.data =
        @ \o [i \in 1..n |-> IF i <= Len(buf) THEN buf[i] ELSE Garbage]]

\* video_dst_data[0] after av_image_copy(..., pix_fmt, width, height): the
\* packed image of the captured geometry, each byte tagged with the frame
\* it was copied from
ImageData(f, w, h, fmt) ==
    [i \in 1..ImageBufferSize(w, h, fmt) |->
        [width |-> f.width, height |-> f.height, format |-> f.format]]

\* an AVCodecContext*: "null", "alloc" (allocated, not opened), "open" or
\* "freed"; held = frames buffered inside the decoder, draining = the flush
\* sentinel was accepted; sent and flushes count the submissions received
MkCtx(st, g, sfmt, ch) ==
    [st |-> st, held |-> 0, draining |-> FALSE, sent |-> 0, flushes |-> 0,
     width |-> g.width, height |-> g.height, pix_fmt |-> g.format,
     sample_fmt |-> sfmt, channels |-> ch]
NoGeometry == [width |-> 0, height |-> 0, format |-> "none"]
NullCtx == MkCtx("null", NoGeometry, "none", 0)

VARIABLES
    pc,                 \* position of the run
    fmt_ctx,            \* input container: handle state, streams, packets left
    video_dec_ctx, audio_dec_ctx,
    width, height, pix_fmt,
    video_stream, audio_stream,          \* TRUE when the AVStream* is set
    video_stream_idx, audio_stream_idx,
    video_dst_file, audio_dst_file,
    video_dst_data, video_dst_bufsize,
    frame, pkt,
    video_frame_count, audio_frame_count,
    ret, frame_nums,
    dec, caller,        \* activation of decode_packet: decoder and call site
    dp_ret,             \* the local ret of decode_packet
    dp_value,           \* the value the last call of decode_packet returned
    raised,             \* the errors raised so far in the run
    releaseLog,         \* resources released so far, in order
    \* locals of testDemuxer
    inputContext, videoInputStream, audioInputStream, outputContext,
    packet, frame_num, hasKey,
    unreleased,         \* packets read by testDemuxer, overwritten while live
    \* locals of encode_video
    format_ctx, oc, outpkt, err

\* the locals of testDemuxer and of encode_video
muxVars == << inputContext, videoInputStream, audioInputStream,
              outputContext, packet, frame_num, hasKey, unreleased >>
encVars == << format_ctx, oc, outpkt, err >>

\* the statics of lines 47-66 and the locals of demuxer_decode
demuxVars == << fmt_ctx, video_dec_ctx, audio_dec_ctx, width, height,
                pix_fmt, video_stream, audio_stream, video_stream_idx,
                audio_stream_idx, video_dst_file, audio_dst_file,
                video_dst_data, video_dst_bufsize, frame, pkt,
                video_frame_count, audio_frame_count, ret, frame_nums,
                dec, caller, dp_ret, dp_value, releaseLog >>

vars == << pc, fmt_ctx, video_dec_ctx, audio_dec_ctx, width, height, pix_fmt,
           video_stream, audio_stream, video_stream_idx, audio_stream_idx,
           video_dst_file, audio_dst_file, video_dst_data, video_dst_bufsize,
           frame, pkt, video_frame_count, audio_frame_count, ret, frame_nums,
           dec, caller, dp_ret, dp_value, raised, releaseLog,
           muxVars, encVars >>

(* --------------------------- frame formatters -------------------------- *)
\* output_video_frame with the height comparison of line 70 left out
output_video_frame_no_height(f) ==
    IF f.width # width \/ f.format # pix_fmt
    THEN [ret |-> -1, count |-> video_frame_count, file |-> video_dst_file]
    ELSE [ret |-> 0, count |-> video_frame_count + 1,
          file |-> Fwrite(ImageData(f, width, height, pix_fmt),
                          video_dst_bufsize, video_dst_file)]

\* output_video_frame: the result [ret, count, file] of formatting frame f
output_video_frame(f) ==
    IF f.width # width \/ f.height # height \/ f.format # pix_fmt
    THEN [ret |-> -1, count |-> video_frame_count, file |-> video_dst_file]
    ELSE [ret |-> 0, count |-> video_frame_count + 1,
          file |-> Fwrite(ImageData(f, width, height, pix_fmt),
                          video_dst_bufsize, video_dst_file)]

\* output_audio_frame: the result [ret, count, file] of formatting frame f
\* into audio sink `file` with frame counter `count`
\* the line size of line 102 taken over all channels
unpadded_linesize_all_channels(f) ==
    f.nb_samples * f.channels * av_get_bytes_per_sample(f.format)
unpadded_linesize(f) == f.nb_samples * av_get_bytes_per_sample(f.format)
output_audio_frame(f, count, file) ==
    [ret |-> 0, count |-> count + 1,
     file |-> Fwrite(ExtendedData0(f), unpadded_linesize(f), file)]

(* ------------------------------ decode_packet -------------------------- *)
Ctx(k) == IF k = "video" THEN video_dec_ctx ELSE audio_dec_ctx

\* the decoder context of kind k becomes c
SetCtx(k, c) ==
    /\ video_dec_ctx' = IF k = "video" THEN c ELSE video_dec_ctx
    /\ audio_dec_ctx' = IF k = "video" THEN audio_dec_ctx ELSE c

\* `return v` of decode_packet: the read loop stores v in ret (lines 343,
\* 345), the flush call site discards it (line 363)
Return(v) ==
    /\ pc' = IF caller = "loop" THEN "packet_unref" ELSE "report"
    /\ ret' = IF caller = "loop" THEN v ELSE ret
    /\ dp_value' = v
    /\ dec' = "none"
    /\ caller' = "none"

\* the submissions a decoder context counts: a packet or the flush sentinel
Submitted(c) ==
    IF caller = "flush" THEN [c EXCEPT !.flushes = @ + 1]
    ELSE [c EXCEPT !.sent = @ + 1]

\* SendPacket with a draining decoder accepting a further flush sentinel
SendPacket_second_flush_ok ==
    /\ pc = "send"
    /\ LET c == Submitted(Ctx(dec)) IN
       \/ \* rejected
          /\ ~(c.st = "open" /\ c.draining /\ caller = "flush")
          /\ dp_ret' = IF c.st # "open" THEN AVERROR(EINVAL)
                       ELSE IF c.draining THEN AVERROR_EOF
                       ELSE AVERROR_INVALIDDATA
          /\ raised' = raised \cup {"DecodeError"}
          /\ SetCtx(dec, c)
          /\ Return(dp_ret')
       \/ \* accepted
          /\ c.st = "open" /\ (~c.draining \/ caller = "flush")
          /\ dp_ret' = 0
          /\ IF caller = "flush"
             THEN SetCtx(dec, [c EXCEPT !.draining = TRUE])
             ELSE \E k \in 0..(MaxHeld - c.held) :
                     SetCtx(dec, [c EXCEPT !.held = @ + k])
          /\ pc' = "receive"
          /\ UNCHANGED << ret, dec, caller, raised, dp_value >>
    /\ UNCHANGED << fmt_ctx, width, height, pix_fmt, video_stream,
                    audio_stream, video_stream_idx, audio_stream_idx,
                    video_dst_file, audio_dst_file, video_dst_data,
                    video_dst_bufsize, frame, pkt, video_frame_count,
                    audio_frame_count, frame_nums, releaseLog >>
    /\ UNCHANGED << muxVars, encVars >>

\* avcodec_send_packet(dec, pkt) and the error return of lines 126-131.
\* A context that is not open, or one already draining, rejects every
\* submission; an open one accepts or rejects.
SendPacket ==
    /\ pc = "send"
    /\ LET c == Submitted(Ctx(dec)) IN
       \/ \* rejected
          /\ dp_ret' = IF c.st # "open" THEN AVERROR(EINVAL)
                       ELSE IF c.draining THEN AVERROR_EOF
                       ELSE AVERROR_INVALIDDATA
          /\ raised' = raised \cup {"DecodeError"}
          /\ SetCtx(dec, c)
          /\ Return(dp_ret')
       \/ \* accepted
          /\ c.st = "open" /\ ~c.draining
          /\ dp_ret' = 0
          /\ IF caller = "flush"
             THEN SetCtx(dec, [c EXCEPT !.draining = TRUE])
             ELSE \E k \in 0..(MaxHeld - c.held) :
                     SetCtx(dec, [c EXCEPT !.held = @ + k])
          /\ pc' = "receive"
          /\ UNCHANGED << ret, dec, caller, raised, dp_value >>
    /\ UNCHANGED << fmt_ctx, width, height, pix_fmt, video_stream,
                    audio_stream, video_stream_idx, audio_stream_idx,
                    video_dst_file, audio_dst_file, video_dst_data,
                    video_dst_bufsize, frame, pkt, video_frame_count,
                    audio_frame_count, frame_nums, releaseLog >>
    /\ UNCHANGED << muxVars, encVars >>

\* the frames avcodec_receive_frame may deliver from decoder kind k: a video
\* frame of any geometry, an audio frame of the stream's format
DeliveredFrames(k) ==
    IF k = "video" THEN {VideoFrame(g) : g \in Geometries}
    ELSE {AudioFrame(audio_dec_ctx.sample_fmt, MaxSamples,
                     audio_dec_ctx.channels)}

\* ReceiveFrame with end of stream returned to the caller as an error
ReceiveFrame_eof_is_error ==
    /\ pc = "receive"
    /\ LET c == Ctx(dec) IN
       \/ \* a frame is delivered
          /\ c.held > 0
          /\ \E f \in DeliveredFrames(dec) : frame' = f
          /\ SetCtx(dec, [c EXCEPT !.held = @ - 1])
          /\ dp_ret' = 0
          /\ pc' = "output"
          /\ UNCHANGED << ret, dec, caller, raised, dp_value >>
       \/ \* no frame yet
          /\ ~c.draining
          /\ dp_ret' = AVERROR(EAGAIN)
          /\ Return(0)
          /\ UNCHANGED << frame, video_dec_ctx, audio_dec_ctx, raised >>
       \/ \* end of stream
          /\ c.draining /\ c.held = 0
          /\ dp_ret' = AVERROR_EOF
          /\ Return(dp_ret')
          /\ UNCHANGED << frame, video_dec_ctx, audio_dec_ctx, raised >>
       \/ \* error during decoding
          /\ dp_ret' = AVERROR_INVALIDDATA
          /\ raised' = raised \cup {"ReceiveError"}
          /\ Return(dp_ret')
          /\ UNCHANGED << frame, video_dec_ctx, audio_dec_ctx >>
    /\ UNCHANGED << fmt_ctx, width, height, pix_fmt, video_stream,
                    audio_stream, video_stream_idx, audio_stream_idx,
                    video_dst_file, audio_dst_file, video_dst_data,
                    video_dst_bufsize, pkt, video_frame_count,
                    audio_frame_count, frame_nums, releaseLog >>
    /\ UNCHANGED << muxVars, encVars >>

\* avcodec_receive_frame(dec, frame) and lines 136-146: a frame, or
\* EAGAIN / EOF (return 0), or another error (return ret)
ReceiveFrame ==
    /\ pc = "receive"
    /\ LET c == Ctx(dec) IN
       \/ \* a frame is delivered
          /\ c.held > 0
          /\ \E f \in DeliveredFrames(dec) : frame' = f
          /\ SetCtx(dec, [c EXCEPT !.held = @ - 1])
          /\ dp_ret' = 0
          /\ pc' = "output"
          /\ UNCHANGED << ret, dec, caller, raised, dp_value >>
       \/ \* no frame yet
          /\ ~c.draining
          /\ dp_ret' = AVERROR(EAGAIN)
          /\ Return(0)
          /\ UNCHANGED << frame, video_dec_ctx, audio_dec_ctx, raised >>
       \/ \* end of stream
          /\ c.draining /\ c.held = 0
          /\ dp_ret' = AVERROR_EOF
          /\ Return(0)
          /\ UNCHANGED << frame, video_dec_ctx, audio_dec_ctx, raised >>
       \/ \* error during decoding
          /\ dp_ret' = AVERROR_INVALIDDATA
          /\ raised' = raised \cup {"ReceiveError"}
          /\ Return(dp_ret')
          /\ UNCHANGED << frame, video_dec_ctx, audio_dec_ctx >>
    /\ UNCHANGED << fmt_ctx, width, height, pix_fmt, video_stream,
                    audio_stream, video_stream_idx, audio_stream_idx,
                    video_dst_file, audio_dst_file, video_dst_data,
                    video_dst_bufsize, pkt, video_frame_count,
                    audio_frame_count, frame_nums, releaseLog >>
    /\ UNCHANGED << muxVars, encVars >>

\* lines 149-152: the frame goes to the formatter of the decoder's kind
OutputFrame ==
    /\ pc = "output"
    /\ IF dec = "video"
       THEN LET r == output_video_frame(frame) IN
            /\ dp_ret' = r.ret
            /\ video_frame_count' = r.count
            /\ video_dst_file' = r.file
            /\ raised' = IF r.ret < 0 THEN raised \cup {"GeometryChanged"}
                                     ELSE raised
            /\ UNCHANGED << audio_frame_count, audio_dst_file >>
       ELSE LET r == output_audio_frame(frame, audio_frame_count,
                                        audio_dst_file) IN
            /\ dp_ret' = r.ret
            /\ audio_frame_count' = r.count
            /\ audio_dst_file' = r.file
            /\ UNCHANGED << video_frame_count, video_dst_file, raised >>
    /\ pc' = "frame_unref"
    /\ UNCHANGED << fmt_ctx, video_dec_ctx, audio_dec_ctx, width, height,
                    pix_fmt, video_stream, audio_stream, video_stream_idx,
                    audio_stream_idx, video_dst_data, video_dst_bufsize,
                    frame, pkt, ret, frame_nums, dec, caller, releaseLog >>
    /\ UNCHANGED << dp_value, muxVars, encVars >>

\* FrameUnref with the formatter's error dropped: the next frame is pulled
FrameUnref_error_dropped ==
    /\ pc = "frame_unref"
    /\ frame' = BlankFrame("blank")
    /\ pc' = "receive"
    /\ UNCHANGED << fmt_ctx, video_dec_ctx, audio_dec_ctx, width, height,
                    pix_fmt, video_stream, audio_stream, video_stream_idx,
                    audio_stream_idx, video_dst_file, audio_dst_file,
                    video_dst_data, video_dst_bufsize, pkt,
                    video_frame_count, audio_frame_count, frame_nums,
                    dp_ret, raised, releaseLog, ret, dec, caller >>
    /\ UNCHANGED << dp_value, muxVars, encVars >>

\* lines 154-157: av_frame_unref, then return on a formatter error or pull
\* the next frame
FrameUnref ==
    /\ pc = "frame_unref"
    /\ frame' = BlankFrame("blank")
    /\ IF dp_ret < 0
       THEN Return(dp_ret)
       ELSE /\ pc' = "receive"
            /\ UNCHANGED << ret, dec, caller, dp_value >>
    /\ UNCHANGED << fmt_ctx, video_dec_ctx, audio_dec_ctx, width, height,
                    pix_fmt, video_stream, audio_stream, video_stream_idx,
                    audio_stream_idx, video_dst_file, audio_dst_file,
                    video_dst_data, video_dst_bufsize, pkt,
                    video_frame_count, audio_frame_count, frame_nums,
                    dp_ret, raised, releaseLog >>
    /\ UNCHANGED << muxVars, encVars >>

(* ---------------------------- demuxer_decode --------------------------- *)
NullContainer == [st |-> "null", hasVideo |-> FALSE, hasAudio |-> FALSE,
                  remaining |-> 0]
BlankPacket(st) == [st |-> st, stream_index |-> -1]

\* an input AVFormatContext* of the container-writing modes: "null", "open"
\* or "closed"; probed = avformat_find_stream_info succeeded; streams = the
\* media kind of each stream, stream i of the program at position i + 1
NullInput == [st |-> "null", probed |-> FALSE, streams |-> << >>,
              remaining |-> 0]

\* an output AVFormatContext*: "null", "alloc" or "freed"; pb = the AVIO
\* handle; log = the calls the container writer received, in order
NullOutput == [st |-> "null", pb |-> "null", nb_streams |-> 0, log |-> << >>]

\* an AVPacket of the container-writing modes: "uninit" (no value yet),
\* "null", "blank", or "live" with the stream it belongs to and its
\* key-frame flag
RemuxPacket(st) == [st |-> st, stream_index |-> -1, key |-> FALSE]

\* demuxer_decode runs: the locals of the other run modes do not exist
MuxIdle ==
    /\ dp_value = 0
    /\ inputContext = NullInput
    /\ videoInputStream = -1 /\ audioInputStream = -1
    /\ outputContext = NullOutput
    /\ packet = RemuxPacket("uninit")
    /\ frame_num = 0 /\ hasKey = FALSE
    /\ unreleased = 0
    /\ format_ctx = NullInput
    /\ oc = NullOutput
    /\ outpkt = RemuxPacket("null")
    /\ err = 0

\* geometries of the video streams, sample formats and channel counts of
\* the audio streams the run is tried on
StreamGeometries ==
    { [width |-> 2, height |-> 2, format |-> "yuv420p"],
      [width |-> 2, height |-> 2, format |-> "rgb24"] }
RunSampleFormats == {"fltp", "s64"}
RunChannels == {2}

Init ==
    /\ pc = "open_input"
    /\ fmt_ctx = NullContainer
    /\ video_dec_ctx = NullCtx
    /\ audio_dec_ctx = NullCtx
    /\ width = 0 /\ height = 0 /\ pix_fmt = "none"
    /\ video_stream = FALSE /\ audio_stream = FALSE
    /\ video_stream_idx = -1 /\ audio_stream_idx = -1
    /\ video_dst_file = NullFile /\ audio_dst_file = NullFile
    /\ video_dst_data = "null" /\ video_dst_bufsize = 0
    /\ frame = BlankFrame("null")
    /\ pkt = BlankPacket("null")
    /\ video_frame_count = 0 /\ audio_frame_count = 0
    /\ ret = 0 /\ frame_nums = 0
    /\ dec = "none" /\ caller = "none" /\ dp_ret = 0
    /\ raised = {}
    /\ releaseLog = << >>
    /\ MuxIdle

\* lines 261-270: avformat_open_input and avformat_find_stream_info; either
\* failing ends the process with exit(1)
OpenInput ==
    /\ pc = "open_input"
    /\ \/ /\ pc' = "exited"
          /\ raised' = raised \cup {"OpenError"}
          /\ \/ UNCHANGED fmt_ctx
             \/ \E v, a \in BOOLEAN, n \in 0..MaxPackets :
                   fmt_ctx' = [st |-> "open", hasVideo |-> v, hasAudio |-> a,
                               remaining |-> n]
       \/ /\ \E v, a \in BOOLEAN, n \in 0..MaxPackets :
                fmt_ctx' = [st |-> "open", hasVideo |-> v, hasAudio |-> a,
                            remaining |-> n]
          /\ pc' = "open_video"
          /\ UNCHANGED raised
    /\ UNCHANGED << video_dec_ctx, audio_dec_ctx, width, height, pix_fmt,
                    video_stream, audio_stream, video_stream_idx,
                    audio_stream_idx, video_dst_file, audio_dst_file,
                    video_dst_data, video_dst_bufsize, frame, pkt,
                    video_frame_count, audio_frame_count, ret, frame_nums,
                    dec, caller, dp_ret, releaseLog >>
    /\ UNCHANGED << dp_value, muxVars, encVars >>

\* open_codec_context: the outcomes [ret, ctx, idx] for a container that
\* has (or has not) a stream of the kind at index idx, opened is the
\* decoder context a success yields.  *stream_idx is written on success only.
open_codec_context(has, idx, opened, old_idx) ==
    IF ~has
    THEN {[ret |-> AVERROR_STREAM_NOT_FOUND, ctx |-> NullCtx, idx |-> old_idx]}
    ELSE {[ret |-> AVERROR(EINVAL), ctx |-> NullCtx, idx |-> old_idx],
          [ret |-> AVERROR(ENOMEM), ctx |-> NullCtx, idx |-> old_idx],
          [ret |-> AVERROR_INVALIDDATA, ctx |-> [opened EXCEPT !.st = "alloc"],
           idx |-> old_idx],
          [ret |-> 0, ctx |-> opened, idx |-> idx]}

\* `throw;` with no exception being handled calls std::terminate: the
\* process ends there and the catch block does not run
Terminate == pc' = "terminated"

\* lines 274-293
OpenVideo ==
    /\ pc = "open_video"
    /\ \E g \in StreamGeometries :
       \E o \in open_codec_context(fmt_ctx.hasVideo, VideoIdx,
                                   MkCtx("open", g, "none", 0),
                                   video_stream_idx) :
          /\ video_dec_ctx' = o.ctx
          /\ video_stream_idx' = o.idx
          /\ IF o.ret >= 0
             THEN /\ video_stream' = TRUE
                  /\ \/ \* fopen fails
                        /\ ret' = 1
                        /\ raised' = raised \cup {"SinkOpenError"}
                        /\ Terminate
                        /\ UNCHANGED << video_dst_file, width, height, pix_fmt,
                                        video_dst_data, video_dst_bufsize >>
                     \/ \* fopen succeeds, av_image_alloc fails
                        /\ video_dst_file' = OpenFile
                        /\ width' = o.ctx.width
                        /\ height' = o.ctx.height
                        /\ pix_fmt' = o.ctx.pix_fmt
                        /\ ret' = AVERROR(ENOMEM)
                        /\ raised' = raised \cup {"AllocError"}
                        /\ Terminate
                        /\ UNCHANGED << video_dst_data, video_dst_bufsize >>
                     \/ \* both succeed
                        /\ video_dst_file' = OpenFile
                        /\ width' = o.ctx.width
                        /\ height' = o.ctx.height
                        /\ pix_fmt' = o.ctx.pix_fmt
                        /\ ret' = ImageBufferSize(width', height', pix_fmt')
                        /\ video_dst_data' = "alloc"
                        /\ video_dst_bufsize' = ret'
                        /\ pc' = "open_audio"
                        /\ UNCHANGED raised
             ELSE /\ pc' = "open_audio"
                  /\ UNCHANGED << video_stream, video_dst_file, width, height,
                                  pix_fmt, ret, video_dst_data,
                                  video_dst_bufsize, raised >>
    /\ UNCHANGED << fmt_ctx, audio_dec_ctx, audio_stream, audio_stream_idx,
                    audio_dst_file, frame, pkt, video_frame_count,
                    audio_frame_count, frame_nums, dec, caller, dp_ret,
                    releaseLog >>
    /\ UNCHANGED << dp_value, muxVars, encVars >>

\* lines 295-303.  audio_dst_filename is NULL (line 258), so the fopen of
\* line 297 has undefined behaviour: it may fail or hand back a stream.
OpenAudio ==
    /\ pc = "open_audio"
    /\ \E sf \in RunSampleFormats, ch \in RunChannels :
       \E o \in open_codec_context(fmt_ctx.hasAudio, AudioIdx,
                                   MkCtx("open", NoGeometry, sf, ch),
                                   audio_stream_idx) :
          /\ audio_dec_ctx' = o.ctx
          /\ audio_stream_idx' = o.idx
          /\ IF o.ret >= 0
             THEN /\ audio_stream' = TRUE
                  /\ \/ /\ ret' = 1
                        /\ raised' = raised \cup {"SinkOpenError"}
                        /\ Terminate
                        /\ UNCHANGED audio_dst_file
                     \/ /\ audio_dst_file' = OpenFile
                        /\ pc' = "check_streams"
                        /\ UNCHANGED << ret, raised >>
             ELSE /\ pc' = "check_streams"
                  /\ UNCHANGED << audio_stream, audio_dst_file, ret, raised >>
    /\ UNCHANGED << fmt_ctx, video_dec_ctx, width, height, pix_fmt,
                    video_stream, video_stream_idx, video_dst_file,
                    video_dst_data, video_dst_bufsize, frame, pkt,
                    video_frame_count, audio_frame_count, frame_nums, dec,
                    caller, dp_ret, releaseLog >>
    /\ UNCHANGED << dp_value, muxVars, encVars >>

\* AllocUnits without the check of lines 308-312
AllocUnits_no_check ==
    /\ pc = "check_streams"
    /\ \/ /\ ret' = AVERROR(ENOMEM)
          /\ raised' = raised \cup {"AllocError"}
          /\ Terminate
          /\ UNCHANGED << frame, pkt >>
       \/ /\ frame' = BlankFrame("blank")
          /\ pkt' = BlankPacket("blank")
          /\ pc' = "read"
          /\ UNCHANGED << ret, raised >>
    /\ UNCHANGED << fmt_ctx, video_dec_ctx, audio_dec_ctx, width, height,
                    pix_fmt, video_stream, audio_stream, video_stream_idx,
                    audio_stream_idx, video_dst_file, audio_dst_file,
                    video_dst_data, video_dst_bufsize, video_frame_count,
                    audio_frame_count, frame_nums, dec, caller, dp_ret,
                    releaseLog >>
    /\ UNCHANGED << dp_value, muxVars, encVars >>

\* lines 308-326: abort when no stream was selected, then av_frame_alloc
\* and av_packet_alloc
AllocUnits ==
    /\ pc = "check_streams"
    /\ IF ~audio_stream /\ ~video_stream
       THEN /\ ret' = 1
            /\ raised' = raised \cup {"NoStream"}
            /\ Terminate
            /\ UNCHANGED << frame, pkt >>
       ELSE \/ /\ ret' = AVERROR(ENOMEM)      \* av_frame_alloc fails
               /\ raised' = raised \cup {"AllocError"}
               /\ Terminate
               /\ UNCHANGED << frame, pkt >>
            \/ /\ frame' = BlankFrame("blank")  \* av_packet_alloc fails
               /\ ret' = AVERROR(ENOMEM)
               /\ raised' = raised \cup {"AllocError"}
               /\ Terminate
               /\ UNCHANGED pkt
            \/ /\ frame' = BlankFrame("blank")
               /\ pkt' = BlankPacket("blank")
               /\ pc' = "read"
               /\ UNCHANGED << ret, raised >>
    /\ UNCHANGED << fmt_ctx, video_dec_ctx, audio_dec_ctx, width, height,
                    pix_fmt, video_stream, audio_stream, video_stream_idx,
                    audio_stream_idx, video_dst_file, audio_dst_file,
                    video_dst_data, video_dst_bufsize, video_frame_count,
                    audio_frame_count, frame_nums, dec, caller, dp_ret,
                    releaseLog >>
    /\ UNCHANGED << dp_value, muxVars, encVars >>

\* the stream indices the packets of the container carry
StreamIndices ==
    (IF fmt_ctx.hasVideo THEN {VideoIdx} ELSE {}) \cup
    (IF fmt_ctx.hasAudio THEN {AudioIdx} ELSE {}) \cup {OtherIdx}

\* line 337: av_read_frame fills pkt, or fails when the container is
\* exhausted and the loop is left
ReadFrame ==
    /\ pc = "read"
    /\ IF fmt_ctx.remaining > 0
       THEN /\ \E s \in StreamIndices :
                  pkt' = [st |-> "live", stream_index |-> s]
            /\ fmt_ctx' = [fmt_ctx EXCEPT !.remaining = @ - 1]
            /\ pc' = "route"
       ELSE /\ pc' = "flush"
            /\ UNCHANGED << pkt, fmt_ctx >>
    /\ UNCHANGED << video_dec_ctx, audio_dec_ctx, width, height, pix_fmt,
                    video_stream, audio_stream, video_stream_idx,
                    audio_stream_idx, video_dst_file, audio_dst_file,
                    video_dst_data, video_dst_bufsize, frame,
                    video_frame_count, audio_frame_count, ret, frame_nums,
                    dec, caller, dp_ret, raised, releaseLog >>
    /\ UNCHANGED << dp_value, muxVars, encVars >>

\* Route with every packet that is not the video stream's sent to the audio
\* decoder
Route_else_audio ==
    /\ pc = "route"
    /\ IF pkt.stream_index = video_stream_idx
       THEN dec' = "video" /\ caller' = "loop" /\ pc' = "send"
       ELSE dec' = "audio" /\ caller' = "loop" /\ pc' = "send"
    /\ UNCHANGED << fmt_ctx, video_dec_ctx, audio_dec_ctx, width, height,
                    pix_fmt, video_stream, audio_stream, video_stream_idx,
                    audio_stream_idx, video_dst_file, audio_dst_file,
                    video_dst_data, video_dst_bufsize, frame, pkt,
                    video_frame_count, audio_frame_count, ret, frame_nums,
                    dp_ret, raised, releaseLog >>
    /\ UNCHANGED << dp_value, muxVars, encVars >>

\* Route with a `continue` for packets of unselected streams: the unref of
\* line 349 is skipped for them
Route_continue ==
    /\ pc = "route"
    /\ IF pkt.stream_index = video_stream_idx
       THEN dec' = "video" /\ caller' = "loop" /\ pc' = "send"
       ELSE IF pkt.stream_index = audio_stream_idx
       THEN dec' = "audio" /\ caller' = "loop" /\ pc' = "send"
       ELSE pc' = "read" /\ UNCHANGED << dec, caller >>
    /\ UNCHANGED << fmt_ctx, video_dec_ctx, audio_dec_ctx, width, height,
                    pix_fmt, video_stream, audio_stream, video_stream_idx,
                    audio_stream_idx, video_dst_file, audio_dst_file,
                    video_dst_data, video_dst_bufsize, frame, pkt,
                    video_frame_count, audio_frame_count, ret, frame_nums,
                    dp_ret, raised, releaseLog >>
    /\ UNCHANGED << dp_value, muxVars, encVars >>

\* lines 342-345: the packet goes to the decoder of its stream, or to none
Route ==
    /\ pc = "route"
    /\ IF pkt.stream_index = video_stream_idx
       THEN dec' = "video" /\ caller' = "loop" /\ pc' = "send"
       ELSE IF pkt.stream_index = audio_stream_idx
       THEN dec' = "audio" /\ caller' = "loop" /\ pc' = "send"
       ELSE pc' = "packet_unref" /\ UNCHANGED << dec, caller >>
    /\ UNCHANGED << fmt_ctx, video_dec_ctx, audio_dec_ctx, width, height,
                    pix_fmt, video_stream, audio_stream, video_stream_idx,
                    audio_stream_idx, video_dst_file, audio_dst_file,
                    video_dst_data, video_dst_bufsize, frame, pkt,
                    video_frame_count, audio_frame_count, ret, frame_nums,
                    dp_ret, raised, releaseLog >>
    /\ UNCHANGED << dp_value, muxVars, encVars >>

\* PacketUnref without the `if (ret < 0) break;` of lines 350-351
PacketUnref_no_error_break ==
    /\ pc = "packet_unref"
    /\ pkt' = BlankPacket("blank")
    /\ IF frame_nums >= FrameCap
       THEN pc' = "flush" /\ UNCHANGED frame_nums
       ELSE pc' = "read" /\ frame_nums' = frame_nums + 1
    /\ UNCHANGED << fmt_ctx, video_dec_ctx, audio_dec_ctx, width, height,
                    pix_fmt, video_stream, audio_stream, video_stream_idx,
                    audio_stream_idx, video_dst_file, audio_dst_file,
                    video_dst_data, video_dst_bufsize, frame,
                    video_frame_count, audio_frame_count, ret, dec, caller,
                    dp_ret, raised, releaseLog >>
    /\ UNCHANGED << dp_value, muxVars, encVars >>

\* lines 349-355: av_packet_unref, then the two breaks and the counter
PacketUnref ==
    /\ pc = "packet_unref"
    /\ pkt' = BlankPacket("blank")
    /\ IF ret < 0 \/ frame_nums >= FrameCap
       THEN pc' = "flush" /\ UNCHANGED frame_nums
       ELSE pc' = "read" /\ frame_nums' = frame_nums + 1
    /\ UNCHANGED << fmt_ctx, video_dec_ctx, audio_dec_ctx, width, height,
                    pix_fmt, video_stream, audio_stream, video_stream_idx,
                    audio_stream_idx, video_dst_file, audio_dst_file,
                    video_dst_data, video_dst_bufsize, frame,
                    video_frame_count, audio_frame_count, ret, dec, caller,
                    dp_ret, raised, releaseLog >>
    /\ UNCHANGED << dp_value, muxVars, encVars >>

\* lines 361-365: decode_packet(video_dec_ctx, NULL) when the pointer is
\* set; the flush of audio_dec_ctx is commented out
FlushDecoders ==
    /\ pc = "flush"
    /\ IF video_dec_ctx.st # "null"
       THEN dec' = "video" /\ caller' = "flush" /\ pc' = "send"
       ELSE pc' = "report" /\ UNCHANGED << dec, caller >>
    /\ UNCHANGED << fmt_ctx, video_dec_ctx, audio_dec_ctx, width, height,
                    pix_fmt, video_stream, audio_stream, video_stream_idx,
                    audio_stream_idx, video_dst_file, audio_dst_file,
                    video_dst_data, video_dst_bufsize, frame, pkt,
                    video_frame_count, audio_frame_count, ret, frame_nums,
                    dp_ret, raised, releaseLog >>
    /\ UNCHANGED << dp_value, muxVars, encVars >>

\* lines 367-397: the success message and the play commands; an audio
\* sample format without a table entry throws std::runtime_error, which
\* the catch of line 399 handles; otherwise the function returns
Report ==
    /\ pc = "report"
    /\ IF audio_stream
       THEN LET sfmt == IF av_sample_fmt_is_planar(audio_dec_ctx.sample_fmt)
                        THEN av_get_packed_sample_fmt(audio_dec_ctx.sample_fmt)
                        ELSE audio_dec_ctx.sample_fmt IN
            /\ ret' = get_format_from_sample_fmt(sfmt)
            /\ pc' = IF ret' < 0 THEN "catch" ELSE "returned"
       ELSE pc' = "returned" /\ UNCHANGED ret
    /\ UNCHANGED << fmt_ctx, video_dec_ctx, audio_dec_ctx, width, height,
                    pix_fmt, video_stream, audio_stream, video_stream_idx,
                    audio_stream_idx, video_dst_file, audio_dst_file,
                    video_dst_data, video_dst_bufsize, frame, pkt,
                    video_frame_count, audio_frame_count, frame_nums, dec,
                    caller, dp_ret, raised, releaseLog >>
    /\ UNCHANGED << dp_value, muxVars, encVars >>

\* the log entry of releasing a resource that is held
Rel(held, name) == IF held THEN << name >> ELSE << >>

\* Teardown with the sink files closed before the container
Teardown_files_first ==
    /\ pc = "catch"
    /\ video_dec_ctx' = IF video_dec_ctx.st = "null" THEN video_dec_ctx
                        ELSE [video_dec_ctx EXCEPT !.st = "freed"]
    /\ audio_dec_ctx' = IF audio_dec_ctx.st = "null" THEN audio_dec_ctx
                        ELSE [audio_dec_ctx EXCEPT !.st = "freed"]
    /\ fmt_ctx' = IF fmt_ctx.st = "null" THEN fmt_ctx
                  ELSE [fmt_ctx EXCEPT !.st = "closed"]
    /\ video_dst_file' = IF video_dst_file.st = "null" THEN video_dst_file
                         ELSE [video_dst_file EXCEPT !.st = "closed"]
    /\ audio_dst_file' = IF audio_dst_file.st = "null" THEN audio_dst_file
                         ELSE [audio_dst_file EXCEPT !.st = "closed"]
    /\ pkt' = IF pkt.st = "null" THEN pkt ELSE BlankPacket("freed")
    /\ frame' = IF frame.st = "null" THEN frame ELSE BlankFrame("freed")
    /\ video_dst_data' = IF video_dst_data = "null" THEN "null" ELSE "freed"
    /\ releaseLog' = releaseLog
            \o Rel(video_dec_ctx.st # "null", "video_dec_ctx")
            \o Rel(audio_dec_ctx.st # "null", "audio_dec_ctx")
            \o Rel(video_dst_file.st # "null", "video_dst_file")
            \o Rel(audio_dst_file.st # "null", "audio_dst_file")
            \o Rel(fmt_ctx.st # "null", "fmt_ctx")
            \o Rel(pkt.st # "null", "pkt")
            \o Rel(frame.st # "null", "frame")
            \o Rel(video_dst_data # "null", "video_dst_data")
    /\ pc' = "returned"
    /\ UNCHANGED << width, height, pix_fmt, video_stream, audio_stream,
                    video_stream_idx, audio_stream_idx, video_dst_bufsize,
                    video_frame_count, audio_frame_count, ret, frame_nums,
                    dec, caller, dp_ret, raised >>
    /\ UNCHANGED << dp_value, muxVars, encVars >>

\* lines 399-410: the catch block
Teardown ==
    /\ pc = "catch"
    /\ video_dec_ctx' = IF video_dec_ctx.st = "null" THEN video_dec_ctx
                        ELSE [video_dec_ctx EXCEPT !.st = "freed"]
    /\ audio_dec_ctx' = IF audio_dec_ctx.st = "null" THEN audio_dec_ctx
                        ELSE [audio_dec_ctx EXCEPT !.st = "freed"]
    /\ fmt_ctx' = IF fmt_ctx.st = "null" THEN fmt_ctx
                  ELSE [fmt_ctx EXCEPT !.st = "closed"]
    /\ video_dst_file' = IF video_dst_file.st = "null" THEN video_dst_file
                         ELSE [video_dst_file EXCEPT !.st = "closed"]
    /\ audio_dst_file' = IF audio_dst_file.st = "null" THEN audio_dst_file
                         ELSE [audio_dst_file EXCEPT !.st = "closed"]
    /\ pkt' = IF pkt.st = "null" THEN pkt ELSE BlankPacket("freed")
    /\ frame' = IF frame.st = "null" THEN frame ELSE BlankFrame("freed")
    /\ video_dst_data' = IF video_dst_data = "null" THEN "null" ELSE "freed"
    /\ releaseLog' = releaseLog
            \o Rel(video_dec_ctx.st # "null", "video_dec_ctx")
            \o Rel(audio_dec_ctx.st # "null", "audio_dec_ctx")
            \o Rel(fmt_ctx.st # "null", "fmt_ctx")
            \o Rel(video_dst_file.st # "null", "video_dst_file")
            \o Rel(audio_dst_file.st # "null", "audio_dst_file")
            \o Rel(pkt.st # "null", "pkt")
            \o Rel(frame.st # "null", "frame")
            \o Rel(video_dst_data # "null", "video_dst_data")
    /\ pc' = "returned"
    /\ UNCHANGED << width, height, pix_fmt, video_stream, audio_stream,
                    video_stream_idx, audio_stream_idx, video_dst_bufsize,
                    video_frame_count, audio_frame_count, ret, frame_nums,
                    dec, caller, dp_ret, raised >>
    /\ UNCHANGED << dp_value, muxVars, encVars >>

\* main, lines 625-628: the run mode called has returned and main returns 0
MainReturn ==
    /\ pc = "returned"
    /\ pc' = "exit0"
    /\ UNCHANGED << fmt_ctx, video_dec_ctx, audio_dec_ctx, width, height,
                    pix_fmt, video_stream, audio_stream, video_stream_idx,
                    audio_stream_idx, video_dst_file, audio_dst_file,
                    video_dst_data, video_dst_bufsize, frame, pkt,
                    video_frame_count, audio_frame_count, ret, frame_nums,
                    dec, caller, dp_ret, dp_value, raised, releaseLog >>
    /\ UNCHANGED << muxVars, encVars >>

\* the exit status of the process: exit(1) at lines 263 and 269, abnormal
\* termination (non-zero) by std::terminate, 0 by main's return
ExitStatus ==
    CASE pc = "exited" -> 1
      [] pc = "terminated" -> 134
      [] pc = "exit0" -> 0
      [] OTHER -> -1

Next ==
    \/ OpenInput
    \/ OpenVideo
    \/ OpenAudio
    \/ AllocUnits
    \/ ReadFrame
    \/ Route
    \/ SendPacket
    \/ ReceiveFrame
    \/ OutputFrame
    \/ FrameUnref
    \/ PacketUnref
    \/ FlushDecoders
    \/ Report
    \/ Teardown
    \/ MainReturn

Spec == Init /\ [][Next]_vars

(* ------------------- output_audio_frame on its own --------------------- *)
\* the audio frames output_audio_frame is applied to
AudioFrames ==
    {AudioFrame(fmt, n, ch) :
        fmt \in SampleFormats, n \in 0..MaxSamples, ch \in 1..MaxChannels}

\* decode_packet holds a frame of the audio decoder at line 152, the audio
\* sink is open and empty or holds earlier data
InitAudio ==
    /\ pc = "output"
    /\ dec = "audio" /\ caller = "loop" /\ dp_ret = 0
    /\ frame \in AudioFrames
    /\ audio_dst_file \in {OpenFile, [OpenFile EXCEPT !.data = << Garbage >>]}
    /\ audio_dec_ctx = MkCtx("open", NoGeometry, frame.format, frame.channels)
    /\ audio_stream = TRUE /\ audio_stream_idx = AudioIdx
    /\ fmt_ctx = [st |-> "open", hasVideo |-> FALSE, hasAudio |-> TRUE,
                  remaining |-> 0]
    /\ video_dec_ctx = NullCtx
    /\ width = 0 /\ height = 0 /\ pix_fmt = "none"
    /\ video_stream = FALSE /\ video_stream_idx = -1
    /\ video_dst_file = NullFile
    /\ video_dst_data = "null" /\ video_dst_bufsize = 0
    /\ pkt = [st |-> "live", stream_index |-> AudioIdx]
    /\ video_frame_count = 0 /\ audio_frame_count = 0
    /\ ret = 0 /\ frame_nums = 0
    /\ raised = {}
    /\ releaseLog = << >>
    /\ MuxIdle

SpecAudio == InitAudio /\ [][OutputFrame]_vars

(* ----------------------- decode_packet on its own --------------------- *)
\* decode_packet is about to be called (line 120) on a decoder of either
\* kind, fresh, holding frames, or drained by an earlier flush
InitDecode ==
    /\ pc = "send"
    /\ dec \in {"video", "audio"}
    /\ caller \in {"loop", "flush"}
    /\ dp_ret = 0
    /\ \E g \in StreamGeometries, h \in 0..MaxHeld, d \in BOOLEAN :
          /\ video_dec_ctx = [MkCtx("open", g, "none", 0) EXCEPT
                                 !.held = IF dec = "video" THEN h ELSE 0,
                                 !.draining = dec = "video" /\ d,
                                 !.flushes = IF dec = "video" /\ d
                                             THEN 1 ELSE 0]
          /\ audio_dec_ctx = [MkCtx("open", NoGeometry, "fltp", 2) EXCEPT
                                 !.held = IF dec = "audio" THEN h ELSE 0,
                                 !.draining = dec = "audio" /\ d,
                                 !.flushes = IF dec = "audio" /\ d
                                             THEN 1 ELSE 0]
          /\ width = g.width /\ height = g.height /\ pix_fmt = g.format
          /\ video_dst_bufsize = ImageBufferSize(g.width, g.height, g.format)
    /\ video_stream = TRUE /\ audio_stream = TRUE
    /\ video_stream_idx = VideoIdx /\ audio_stream_idx = AudioIdx
    /\ fmt_ctx = [st |-> "open", hasVideo |-> TRUE, hasAudio |-> TRUE,
                  remaining |-> 0]
    /\ video_dst_file = OpenFile /\ audio_dst_file = OpenFile
    /\ video_dst_data = "alloc"
    /\ frame = BlankFrame("blank")
    /\ pkt = IF caller = "flush" THEN BlankPacket("null")
             ELSE [st |-> "live",
                   stream_index |-> IF dec = "video" THEN VideoIdx
                                    ELSE AudioIdx]
    /\ video_frame_count = 0 /\ audio_frame_count = 0
    /\ ret = 0 /\ frame_nums = 0
    /\ raised = {}
    /\ releaseLog = << >>
    /\ MuxIdle

\* decode_packet has returned and is called once more on the same decoder
\* with the flush sentinel (pkt == NULL, as at line 363)
FlushAgain ==
    /\ pc \in {"packet_unref", "report"}
    /\ \E k \in {"video", "audio"} :
          /\ Ctx(k).sent + Ctx(k).flushes > 0
          /\ Ctx(k).flushes < MaxFlushes
          /\ dec' = k
    /\ caller' = "flush"
    /\ pkt' = BlankPacket("null")
    /\ pc' = "send"
    /\ UNCHANGED << fmt_ctx, video_dec_ctx, audio_dec_ctx, width, height,
                    pix_fmt, video_stream, audio_stream, video_stream_idx,
                    audio_stream_idx, video_dst_file, audio_dst_file,
                    video_dst_data, video_dst_bufsize, frame,
                    video_frame_count, audio_frame_count, frame_nums,
                    dp_ret, dp_value, raised, releaseLog, ret >>
    /\ UNCHANGED << muxVars, encVars >>

NextDecode ==
    \/ SendPacket
    \/ ReceiveFrame
    \/ OutputFrame
    \/ FrameUnref
    \/ FlushAgain

SpecDecode == InitDecode /\ [][NextDecode]_vars

(* ------------------------------ testDemuxer ---------------------------- *)
\* the stream layouts of the input containers the modes are tried on
StreamLayouts ==
    { << >>, << "video" >>, << "audio" >>, << "video", "audio" >>,
      << "audio", "video" >> }

\* streams[i] of the last stream of a kind, or -1 (NULL): the loop of lines
\* 554-561 keeps the last match
LastStreamOf(streams, kind) ==
    LET S == {i \in 1..Len(streams) : streams[i] = kind} IN
    IF S = {} THEN -1 ELSE (CHOOSE i \in S : \A j \in S : j <= i) - 1

\* a call the container writer received
WriterCall(op, p, kind, ordinal, ok) ==
    [op |-> op, stream_index |-> p.stream_index, kind |-> kind,
     key |-> p.key, ordinal |-> ordinal, ok |-> ok]
HeaderWritten(o) ==
    \E i \in 1..Len(o.log) : o.log[i].op = "header" /\ o.log[i].ok

\* the outcomes of avformat_open_input followed by avformat_find_stream_info
\* (lines 544-545, 443-444): the open may fail (the handle is NULL), the
\* probe may fail on an opened container
OpenedInputs ==
    { [st |-> "open", probed |-> pr, streams |-> lay,
       remaining |-> IF lay = << >> THEN 0 ELSE n] :
         pr \in BOOLEAN, lay \in StreamLayouts, n \in 0..MaxRemuxPackets }

\* lines 541-546: the results of the open and of the probe are not looked
\* at; avformat_find_stream_info on the NULL handle of a failed open is
\* undefined
TdOpenInput ==
    /\ pc = "td_open"
    /\ \/ /\ inputContext' \in OpenedInputs
          /\ pc' = "td_streams"
       \/ /\ inputContext' = NullInput
          /\ pc' \in {"td_streams", "terminated"}
    /\ UNCHANGED << videoInputStream, audioInputStream, outputContext,
                    packet, frame_num, hasKey, unreleased >>
    /\ UNCHANGED << demuxVars, encVars, raised >>

\* lines 549-561: the scan of the stream descriptors; on a NULL handle the
\* read of nb_streams is undefined
TdScanStreams ==
    /\ pc = "td_streams"
    /\ IF inputContext.st = "null"
       THEN /\ pc' \in {"td_output", "terminated"}
            /\ UNCHANGED << videoInputStream, audioInputStream >>
       ELSE /\ videoInputStream' = LastStreamOf(inputContext.streams, "video")
            /\ audioInputStream' = LastStreamOf(inputContext.streams, "audio")
            /\ pc' = "td_output"
    /\ UNCHANGED << inputContext, outputContext, packet, frame_num, hasKey,
                    unreleased >>
    /\ UNCHANGED << demuxVars, encVars, raised >>

\* lines 564-575: the output context, its one stream, the AVIO handle, and
\* the copy of the video input stream's parameters; no result is looked at.
\* A NULL output context or a NULL videoInputStream is dereferenced
\* (undefined)
TdOpenOutput ==
    /\ pc = "td_output"
    /\ \/ /\ outputContext' = NullOutput
          /\ pc' \in {"td_header", "terminated"}
       \/ /\ \E io \in {"open", "null"} :
                outputContext' = [st |-> "alloc", pb |-> io,
                                  nb_streams |-> 1, log |-> << >>]
          /\ IF videoInputStream = -1
             THEN pc' \in {"td_header", "terminated"}
             ELSE pc' = "td_header"
    /\ UNCHANGED << inputContext, videoInputStream, audioInputStream,
                    packet, frame_num, hasKey, unreleased >>
    /\ UNCHANGED << demuxVars, encVars, raised >>

\* avformat_write_header(o, NULL): writes the header or fails; without an
\* open AVIO handle it fails
WriteHeader(o) ==
    { [o EXCEPT !.log = Append(@, WriterCall("header", RemuxPacket("null"),
                                             "none", 0, ok))] :
        ok \in {o.pb = "open", FALSE} }

\* lines 580-586
TdWriteHeader ==
    /\ pc = "td_header"
    /\ IF outputContext.st = "null"
       THEN /\ pc' \in {"td_read", "terminated"}
            /\ UNCHANGED outputContext
       ELSE /\ outputContext' \in WriteHeader(outputContext)
            /\ pc' = "td_read"
    /\ frame_num' = 0 /\ hasKey' = FALSE
    /\ UNCHANGED << inputContext, videoInputStream, audioInputStream,
                    packet, unreleased >>
    /\ UNCHANGED << demuxVars, encVars, raised >>

\* the packets av_read_frame may deliver from container c
PacketsOf(c) ==
    { [st |-> "live", stream_index |-> i - 1, key |-> k] :
        i \in 1..Len(c.streams), k \in BOOLEAN }

\* lines 589-590: av_read_frame overwrites packet without releasing what it
\* holds; any result but 0 ends the loop
TdReadFrame ==
    /\ pc = "td_read"
    /\ IF inputContext.st = "null"
       THEN /\ pc' \in {"td_trailer", "terminated"}
            /\ UNCHANGED << inputContext, packet, unreleased >>
       ELSE \/ /\ inputContext.remaining > 0
               /\ packet' \in PacketsOf(inputContext)
               /\ inputContext' = [inputContext EXCEPT !.remaining = @ - 1]
               /\ unreleased' = IF packet.st = "live" THEN unreleased + 1
                                ELSE unreleased
               /\ pc' = "td_filter"
            \/ /\ pc' = "td_trailer"  \* end of file or a read error
               /\ UNCHANGED << inputContext, packet, unreleased >>
    /\ UNCHANGED << videoInputStream, audioInputStream, outputContext,
                    frame_num, hasKey >>
    /\ UNCHANGED << demuxVars, encVars, raised >>

\* lines 591-599: the packet's ordinal, the skip of the first packets, the
\* stop, and the wait for a key frame
TdFilter ==
    /\ pc = "td_filter"
    /\ frame_num' = frame_num + 1
    /\ IF frame_num' < SkipBelow
       THEN pc' = "td_read" /\ UNCHANGED hasKey
       ELSE IF frame_num' >= StopAt
       THEN pc' = "td_trailer" /\ UNCHANGED hasKey
       ELSE IF ~hasKey /\ ~packet.key
       THEN pc' = "td_read" /\ UNCHANGED hasKey
       ELSE pc' = "td_write" /\ hasKey' = TRUE
    /\ UNCHANGED << inputContext, videoInputStream, audioInputStream,
                    outputContext, packet, unreleased >>
    /\ UNCHANGED << demuxVars, encVars, raised >>

\* av_interleaved_write_frame(o, &p): the writer takes the packet; it
\* rejects a packet whose stream_index is not one of the output's streams,
\* and any packet when no header was written
WriteFrame(o, p, kind, ordinal) ==
    { [o EXCEPT !.log = Append(@, WriterCall("write", p, kind, ordinal, ok))] :
        ok \in {HeaderWritten(o) /\ p.stream_index < o.nb_streams, FALSE} }

\* lines 603-612: the comparison with videoOutputStream->index only chooses
\* what is printed; every packet goes to the writer
TdWriteFrame ==
    /\ pc = "td_write"
    /\ IF outputContext.st = "null"
       THEN /\ pc' \in {"td_read", "terminated"}
            /\ UNCHANGED << outputContext, packet >>
       ELSE /\ outputContext' \in
                 WriteFrame(outputContext, packet,
                            inputContext.streams[packet.stream_index + 1],
                            frame_num)
            /\ packet' = [packet EXCEPT !.st = "blank"]
            /\ pc' = "td_read"
    /\ UNCHANGED << inputContext, videoInputStream, audioInputStream,
                    frame_num, hasKey, unreleased >>
    /\ UNCHANGED << demuxVars, encVars, raised >>

\* av_write_trailer(o)
WriteTrailer(o) ==
    [o EXCEPT !.log = Append(@, WriterCall("trailer", RemuxPacket("null"),
                                           "none", 0, HeaderWritten(o)))]

\* lines 614-615
TdWriteTrailer ==
    /\ pc = "td_trailer"
    /\ IF outputContext.st = "null"
       THEN /\ pc' \in {"td_close", "terminated"}
            /\ UNCHANGED outputContext
       ELSE /\ outputContext' = WriteTrailer(outputContext)
            /\ pc' = "td_close"
    /\ UNCHANGED << inputContext, videoInputStream, audioInputStream,
                    packet, frame_num, hasKey, unreleased >>
    /\ UNCHANGED << demuxVars, encVars, raised >>

\* lines 616-620: the input is closed, the AVIO handle is closed and the
\* output context freed
TdClose ==
    /\ pc = "td_close"
    /\ inputContext' = IF inputContext.st = "null" THEN inputContext
                       ELSE [inputContext EXCEPT !.st = "closed"]
    /\ IF outputContext.st = "null"
       THEN /\ pc' \in {"returned", "terminated"}
            /\ UNCHANGED outputContext
       ELSE /\ outputContext' =
                 [outputContext EXCEPT
                     !.st = "freed",
                     !.pb = IF @ = "open" THEN "closed" ELSE @]
            /\ pc' = "returned"
    /\ UNCHANGED << videoInputStream, audioInputStream, packet, frame_num,
                    hasKey, unreleased >>
    /\ UNCHANGED << demuxVars, encVars, raised >>

(* ------------------------------ encode_video --------------------------- *)
\* lines 432-445: err is overwritten by each call and not looked at; a
\* failed open frees the context and leaves format_ctx NULL, on which
\* avformat_find_stream_info is undefined
EvOpenInput ==
    /\ pc = "ev_open"
    /\ \/ /\ format_ctx' \in OpenedInputs
          /\ err' = IF format_ctx'.probed THEN 0 ELSE AVERROR_INVALIDDATA
          /\ pc' = "ev_decoder"
       \/ /\ format_ctx' = NullInput
          /\ err' = AVERROR_INVALIDDATA
          /\ pc' \in {"ev_decoder", "terminated"}
    /\ UNCHANGED << oc, outpkt >>
    /\ UNCHANGED << demuxVars, muxVars, raised >>

\* lines 449-458: the decoder set up from format_ctx->streams[0]; with a
\* NULL context or no stream the access is undefined
EvDecoderSetup ==
    /\ pc = "ev_decoder"
    /\ IF format_ctx.st = "null" \/ format_ctx.streams = << >>
       THEN pc' \in {"ev_output", "terminated"} /\ UNCHANGED err
       ELSE pc' = "ev_output" /\ err' \in {0, AVERROR(EINVAL)}
    /\ UNCHANGED << format_ctx, oc, outpkt >>
    /\ UNCHANGED << demuxVars, muxVars, raised >>

\* lines 461-479: the output context (return -1 when no video codec is
\* guessed for it), its stream, the output packet and the AVIO handle
EvOpenOutput ==
    /\ pc = "ev_output"
    /\ \/ /\ oc' = NullOutput              \* allocation fails: oc->oformat
          /\ err' = AVERROR(ENOMEM)
          /\ pc' \in {"ev_header", "terminated"}
          /\ UNCHANGED outpkt
       \/ /\ oc' = [st |-> "alloc", pb |-> "null", nb_streams |-> 0,
                    log |-> << >>]
          /\ err' = 0
          /\ pc' = "returned"              \* AV_CODEC_ID_NONE
          /\ UNCHANGED outpkt
       \/ /\ \E io \in {"open", "null"} :
                /\ oc' = [st |-> "alloc", pb |-> io, nb_streams |-> 1,
                          log |-> << >>]
                /\ err' = IF io = "open" THEN 0 ELSE AVERROR(EINVAL)
          /\ outpkt' = RemuxPacket("blank")
          /\ IF format_ctx.st = "null" \/ format_ctx.streams = << >>
             THEN pc' \in {"ev_header", "terminated"}
             ELSE pc' = "ev_header"
    /\ UNCHANGED format_ctx
    /\ UNCHANGED << demuxVars, muxVars, raised >>

\* line 481
EvWriteHeader ==
    /\ pc = "ev_header"
    /\ IF oc.st = "null"
       THEN /\ pc' \in {"ev_read", "terminated"}
            /\ UNCHANGED << oc, err >>
       ELSE /\ oc' \in WriteHeader(oc)
            /\ err' = IF HeaderWritten(oc') THEN 0 ELSE AVERROR(EINVAL)
            /\ pc' = "ev_read"
    /\ UNCHANGED << format_ctx, outpkt >>
    /\ UNCHANGED << demuxVars, muxVars, raised >>

\* lines 483-494: one packet is read, its result overwritten by that of
\* av_fifo_write; return -1 when the queue write fails
EvReadFrame ==
    /\ pc = "ev_read"
    /\ IF format_ctx.st = "null" \/ outpkt.st = "null"
       THEN /\ pc' \in {"ev_finish", "terminated"}
            /\ UNCHANGED << format_ctx, outpkt, err >>
       ELSE /\ \/ /\ format_ctx.remaining > 0
                  /\ outpkt' \in PacketsOf(format_ctx)
                  /\ format_ctx' = [format_ctx EXCEPT !.remaining = @ - 1]
               \/ UNCHANGED << format_ctx, outpkt >>
            /\ err' \in {0, AVERROR(ENOMEM)}
            /\ pc' = IF err' # 0 THEN "returned" ELSE "ev_finish"
    /\ UNCHANGED oc
    /\ UNCHANGED << demuxVars, muxVars, raised >>

\* lines 495-516: the encoder lookup, then the end of the function body is
\* reached without a return statement (undefined in a function returning
\* int): the call returns or the process dies
EvFinish ==
    /\ pc = "ev_finish"
    /\ pc' \in {"returned", "terminated"}
    /\ UNCHANGED << format_ctx, oc, outpkt, err >>
    /\ UNCHANGED << demuxVars, muxVars, raised >>

\* main with testDemuxer() (line 627) or encode_video() (line 626) as the
\* call made
InitMux ==
    /\ pc \in {"td_open", "ev_open"}
    /\ fmt_ctx = NullContainer
    /\ video_dec_ctx = NullCtx
    /\ audio_dec_ctx = NullCtx
    /\ width = 0 /\ height = 0 /\ pix_fmt = "none"
    /\ video_stream = FALSE /\ audio_stream = FALSE
    /\ video_stream_idx = -1 /\ audio_stream_idx = -1
    /\ video_dst_file = NullFile /\ audio_dst_file = NullFile
    /\ video_dst_data = "null" /\ video_dst_bufsize = 0
    /\ frame = BlankFrame("null")
    /\ pkt = BlankPacket("null")
    /\ video_frame_count = 0 /\ audio_frame_count = 0
    /\ ret = 0 /\ frame_nums = 0
    /\ dec = "none" /\ caller = "none" /\ dp_ret = 0
    /\ raised = {}
    /\ releaseLog = << >>
    /\ MuxIdle

NextMux ==
    \/ TdOpenInput
    \/ TdScanStreams
    \/ TdOpenOutput
    \/ TdWriteHeader
    \/ TdReadFrame
    \/ TdFilter
    \/ TdWriteFrame
    \/ TdWriteTrailer
    \/ TdClose
    \/ EvOpenInput
    \/ EvDecoderSetup
    \/ EvOpenOutput
    \/ EvWriteHeader
    \/ EvReadFrame
    \/ EvFinish
    \/ MainReturn

SpecMux == InitMux /\ [][NextMux]_vars

(* ------------------------------- claims -------------------------------- *)
\* the run is past the flush of lines 361-365
AfterFlush == pc \in {"report", "catch", "returned", "exit0"}
\* the bytes a step appends to a file
Appended(old, new) == SubSeq(new.data, Len(old.data) + 1, Len(new.data))

\* C1: once the read loop has ended and the flush step is over, every
\* decoder that was selected (video and audio) has received the flush
\* sentinel exactly once.
C1_EachActiveDecoderFlushedOnce ==
    AfterFlush =>
        /\ video_stream => video_dec_ctx.flushes = 1
        /\ audio_stream => audio_dec_ctx.flushes = 1

Held ==
    (IF video_dec_ctx.st \in {"alloc", "open"} THEN {"video_dec_ctx"} ELSE {})
    \cup (IF audio_dec_ctx.st \in {"alloc", "open"} THEN {"audio_dec_ctx"} ELSE {})
    \cup (IF fmt_ctx.st = "open" THEN {"fmt_ctx"} ELSE {})
    \cup (IF video_dst_file.st = "open" THEN {"video_dst_file"} ELSE {})
    \cup (IF audio_dst_file.st = "open" THEN {"audio_dst_file"} ELSE {})
    \cup (IF pkt.st \in {"blank", "live"} THEN {"pkt"} ELSE {})
    \cup (IF frame.st \in {"blank", "live"} THEN {"frame"} ELSE {})
    \cup (IF video_dst_data = "alloc" THEN {"video_dst_data"} ELSE {})
Releases(name) ==
    Cardinality({i \in 1..Len(releaseLog) : releaseLog[i] = name})

\* C3: when the run has ended after the container was opened, nothing
\* acquired is still held and nothing was released twice.
C3_EverythingReleasedOnce ==
    (pc \in {"returned", "exit0", "terminated"}) =>
        /\ Held = {}
        /\ \A i \in 1..Len(releaseLog) : Releases(releaseLog[i]) = 1

C5_AppendsOnlyMatchingFrames ==
    [][/\ (video_dst_file'.data # video_dst_file.data =>
              /\ pc = "output" /\ dec = "video"
              /\ frame.width = width /\ frame.height = height
              /\ frame.format = pix_fmt
              /\ Len(video_dst_file'.data) =
                    Len(video_dst_file.data) + video_dst_bufsize
              /\ video_dst_bufsize = ImageBufferSize(width, height, pix_fmt)
              /\ \A i \in 1..Len(video_dst_file.data) :
                    video_dst_file'.data[i] = video_dst_file.data[i]
              /\ \A b \in {Appended(video_dst_file, video_dst_file')[i] :
                             i \in 1..video_dst_bufsize} :
                    b = [width |-> width, height |-> height,
                         format |-> pix_fmt])
       /\ ((/\ pc = "output" /\ dec = "video"
            /\ (\/ frame.width # width \/ frame.height # height
                \/ frame.format # pix_fmt)) =>
              /\ video_dst_file' = video_dst_file
              /\ dp_ret' < 0)]_vars

\* C5 witness: a differing frame was just refused after frames were appended
C5_Witness ==
    /\ pc = "frame_unref" /\ dec = "video"
    /\ dp_ret < 0
    /\ frame.height # height
    /\ Len(video_dst_file.data) >= 2 * video_dst_bufsize
    /\ video_dst_bufsize > 0

\* C6: once GeometryChanged was raised, the video sink does not grow any
\* more, the flush after the loop included.
C6_NoVideoBytesAfterGeometryChanged ==
    [][("GeometryChanged" \in raised) =>
          video_dst_file'.data = video_dst_file.data]_vars

\* C7: the packet is released when the next one is read, whatever happened
\* to it, and the frame is released when the next frame is pulled or the
\* next packet or sentinel is submitted; nothing stays owned after the loop.
C7_OneUnitInFlight ==
    /\ (pc \in {"read", "flush", "report", "returned", "exit0"} =>
          pkt.st # "live")
    /\ (pc \in {"read", "route", "send", "receive", "packet_unref", "flush",
                "report", "returned", "exit0"} => frame.st # "live")

\* C7 witness: the flush is submitted after the loop read a packet of an
\* unselected stream (more packets completed than were submitted), wrote a
\* frame and then failed in the formatter: packet and frame are blank
C7_Witness ==
    /\ pc = "send" /\ caller = "flush"
    /\ "GeometryChanged" \in raised
    /\ video_frame_count > 0
    /\ frame_nums + 1 > video_dec_ctx.sent + audio_dec_ctx.sent
    /\ pkt.st = "blank" /\ frame.st = "blank"

\* C8: the video frames appended in one run never exceed the frame cap,
\* and the video sink never exceeds cap x frame size.
C8_VideoFramesWithinCap ==
    /\ video_frame_count <= FrameCap
    /\ Len(video_dst_file.data) <= FrameCap * video_dst_bufsize

\* C9: formatting a frame of a packed sample format appends all its
\* interleaved bytes: nb_samples x channels x bytes per sample.
C9_PackedWritesAllChannels ==
    [][(/\ pc = "output" /\ dec = "audio"
        /\ ~av_sample_fmt_is_planar(frame.format)) =>
          Len(audio_dst_file'.data) = Len(audio_dst_file.data)
              + frame.nb_samples * frame.channels
                * av_get_bytes_per_sample(frame.format)]_vars

\* C10: formatting a frame of a planar sample format appends exactly
\* nb_samples x bytes per sample bytes, the samples of channel 0 in order,
\* whatever the channel count, and nothing else.
C10_PlanarWritesChannel0 ==
    [][(/\ pc = "output" /\ dec = "audio"
        /\ av_sample_fmt_is_planar(frame.format)) =>
          LET bps == av_get_bytes_per_sample(frame.format)
              added == Appended(audio_dst_file, audio_dst_file')
          IN /\ Len(audio_dst_file'.data) =
                    Len(audio_dst_file.data) + frame.nb_samples * bps
             /\ \A i \in 1..Len(audio_dst_file.data) :
                    audio_dst_file'.data[i] = audio_dst_file.data[i]
             /\ \A i \in 1..Len(added) :
                    added[i] = [ch |-> 0, sample |-> (i - 1) \div bps,
                                byte |-> (i - 1) % bps]
             /\ dp_ret' = 0]_vars

\* C10 witness: a planar frame of several channels and samples was written
C10_Witness ==
    /\ pc = "frame_unref" /\ dec = "audio"
    /\ av_sample_fmt_is_planar(frame.format)
    /\ frame.channels >= 2 /\ frame.nb_samples >= 2
    /\ Len(audio_dst_file.data) >=
          frame.nb_samples * av_get_bytes_per_sample(frame.format)
    /\ audio_frame_count = 1

\* a decoder that an earlier flush has drained is flushed again
FlushOfDrained ==
    /\ pc = "send" /\ caller = "flush"
    /\ Ctx(dec).st = "open" /\ Ctx(dec).draining /\ Ctx(dec).held = 0

C13_FailedKindNeverSubmitted ==
    /\ (~video_stream /\ audio_stream) =>
           video_dec_ctx.sent = 0 /\ video_dec_ctx.flushes = 0
    /\ (~audio_stream /\ video_stream) =>
           audio_dec_ctx.sent = 0 /\ audio_dec_ctx.flushes = 0

\* stream selection is over and neither kind was selected
NeitherSelected ==
    /\ pc \notin {"open_input", "open_video", "open_audio", "exited"}
    /\ ~video_stream /\ ~audio_stream

\* C14: if neither a video nor an audio stream is selected in
\* demuxer_decode, the run aborts: the read loop is never entered (no packet
\* is allocated or read), no decoder receives a packet or a flush, and the
\* run never reaches the success report.
C14_NoStreamAborts ==
    NeitherSelected =>
        /\ pc \in {"check_streams", "terminated"}
        /\ pkt.st = "null" /\ frame_nums = 0
        /\ video_dec_ctx.sent = 0 /\ video_dec_ctx.flushes = 0
        /\ audio_dec_ctx.sent = 0 /\ audio_dec_ctx.flushes = 0

\* the run aborted for lack of a stream while the container held packets
C14_Witness ==
    /\ NeitherSelected /\ pc = "terminated" /\ "NoStream" \in raised
    /\ fmt_ctx.st = "open" /\ fmt_ctx.remaining > 0

\* the packet just read belongs to neither selected stream
Unselected ==
    /\ pkt.st = "live"
    /\ pkt.stream_index # video_stream_idx
    /\ pkt.stream_index # audio_stream_idx

\* C15: in demuxer_decode a packet of neither selected stream is ignored:
\* it is submitted to no decoder, changes no frame counter and no sink, and
\* does not end the read loop with an error (after its release the loop
\* reads on, or stops only because the frame cap is reached).
C15_UnselectedPacketIgnored ==
    [][/\ (pc = "route" /\ Unselected) =>
             /\ pc' = "packet_unref"
             /\ video_dec_ctx' = video_dec_ctx
             /\ audio_dec_ctx' = audio_dec_ctx
             /\ video_frame_count' = video_frame_count
             /\ audio_frame_count' = audio_frame_count
             /\ video_dst_file' = video_dst_file
             /\ audio_dst_file' = audio_dst_file
             /\ ret' = ret /\ ret' >= 0
       /\ (pc = "packet_unref" /\ Unselected) =>
             /\ raised' = raised
             /\ \/ pc' = "read"
                \/ pc' = "flush" /\ frame_nums >= FrameCap]_vars

\* an unselected packet was skipped and the loop read the next packet, while
\* the decoders had received nothing
C15_Witness ==
    /\ pc = "route" /\ frame_nums = 1
    /\ video_dec_ctx.sent = 0 /\ audio_dec_ctx.sent = 0
    /\ video_stream /\ audio_stream
    /\ raised = {}

\* the teardown group of a resource: decoders, container, sink files,
\* packet and frame, image buffer
ReleaseGroup(name) ==
    CASE name \in {"video_dec_ctx", "audio_dec_ctx"} -> 1
      [] name = "fmt_ctx" -> 2
      [] name \in {"video_dst_file", "audio_dst_file"} -> 3
      [] name \in {"pkt", "frame"} -> 4
      [] name = "video_dst_data" -> 5

\* C18: whenever teardown runs in demuxer_decode, the resources are released
\* in the order decoders, container, sink files, packet and frame, image
\* buffer: no resource of a later group is released before one of an
\* earlier group.
C18_TeardownOrder ==
    \A i, j \in 1..Len(releaseLog) :
        i < j => ReleaseGroup(releaseLog[i]) <= ReleaseGroup(releaseLog[j])

\* teardown has run on a run that held a resource of every group
C18_Witness ==
    /\ pc = "returned"
    /\ {ReleaseGroup(releaseLog[i]) : i \in 1..Len(releaseLog)} = 1..5

\* the read loop of demuxer_decode was left by the break of line 350 on a
\* GeometryChanged or a receive error: packets remained to read and the
\* frame cap was not reached, so it was the break on ret < 0, and no
\* submission was rejected, so the error was one of those two
FatalInLoop ==
    /\ AfterFlush
    /\ fmt_ctx.remaining > 0 /\ frame_nums < FrameCap
    /\ "DecodeError" \notin raised
    /\ raised \cap {"GeometryChanged", "ReceiveError"} # {}

\* C19: on every fatal path (OpenError, sink open failure, no stream
\* selected, GeometryChanged or a decoder receive error in the loop) the
\* process ends with a non-zero status; it exits 0 only when no fatal error
\* occurred.
C19_FatalExitsNonZero ==
    ExitStatus = 0 =>
        /\ raised \cap {"OpenError", "SinkOpenError", "NoStream"} = {}
        /\ ~FatalInLoop

\* the step returns from decode_packet
Returns == dec # "none" /\ dec' = "none"

\* C20: in decode_packet, once the submission is accepted, frames are
\* pulled one at a time and each is handed to the formatter of the decoder's
\* kind before the next pull, until the decoder reports no-frame-yet or
\* end-of-stream, and then decode_packet returns 0; it returns a negative
\* value only if the submit was rejected, a pull failed with another error,
\* or the formatter failed, and then no further frame is pulled in that call.
C20_PullUntilDrainedOrError ==
    [][/\ (pc = "send" /\ ~Returns) => pc' = "receive" /\ dp_ret' = 0
       /\ (pc = "receive" /\ ~Returns) =>
             pc' = "output" /\ frame'.st = "live"
       /\ pc = "output" =>
             /\ pc' = "frame_unref" /\ dec' = dec /\ frame' = frame
             /\ dec = "video" =>
                   /\ audio_frame_count' = audio_frame_count
                   /\ audio_dst_file' = audio_dst_file
                   /\ dp_ret' = output_video_frame(frame).ret
                   /\ video_dst_file' = output_video_frame(frame).file
             /\ dec = "audio" =>
                   /\ video_frame_count' = video_frame_count
                   /\ video_dst_file' = video_dst_file
                   /\ audio_frame_count' = audio_frame_count + 1
                   /\ Len(audio_dst_file'.data) >= Len(audio_dst_file.data)
       /\ pc = "frame_unref" =>
             /\ frame'.st = "blank"
             /\ IF dp_ret < 0 THEN Returns /\ dp_value' = dp_ret
                              ELSE ~Returns /\ pc' = "receive"
       /\ Returns =>
             /\ dp_value' <= 0
             /\ frame'.st # "live"
             /\ dp_value' = 0 <=>
                   /\ pc = "receive"
                   /\ dp_ret' \in {AVERROR(EAGAIN), AVERROR_EOF}
             /\ dp_value' < 0 =>
                   \/ pc = "send" /\ dp_value' = dp_ret'
                   \/ /\ pc = "receive" /\ dp_value' = dp_ret'
                      /\ dp_ret' \notin {AVERROR(EAGAIN), AVERROR_EOF}
                   \/ pc = "frame_unref" /\ dp_value' = dp_ret]_vars

\* one accepted packet yielded two frames, both were written to the video
\* sink, and the call returned 0 on no-frame-yet
C20_Witness ==
    /\ pc = "packet_unref" /\ dp_value = 0 /\ dp_ret = AVERROR(EAGAIN)
    /\ video_dec_ctx.sent = 1 /\ audio_dec_ctx.sent = 0
    /\ video_frame_count = 2

\* the input of a container-writing mode failed to open or to be probed
InputFailed(c) == c.st = "null" \/ ~c.probed

\* C12: in every run mode a failure to open or probe the input container
\* is fatal: the run aborts before a stream descriptor of the container is
\* accessed, before a packet is read and before an output header is written.
C12_OpenErrorAbortsEveryMode ==
    /\ (pc \in {"td_streams", "td_output", "td_header", "td_read",
                "td_filter", "td_write", "td_trailer", "td_close"}
          /\ InputFailed(inputContext)) =>
           /\ videoInputStream = -1 /\ audioInputStream = -1
           /\ frame_num = 0 /\ packet.st = "uninit"
           /\ ~HeaderWritten(outputContext)
    /\ (pc \in {"ev_decoder", "ev_output", "ev_header", "ev_read",
                "ev_finish"} /\ InputFailed(format_ctx)) =>
           /\ outpkt.st # "live"
           /\ ~HeaderWritten(oc)

\* C16: in testDemuxer, on an input that was opened and probed and has a
\* video stream, only packets of the selected input video stream are passed
\* to the container writer once the header is written; packets of any other
\* input stream are never passed to it.
C16_OnlyVideoPacketsWritten ==
    (inputContext.probed /\ videoInputStream # -1
       /\ HeaderWritten(outputContext)) =>
        \A i \in 1..Len(outputContext.log) :
            outputContext.log[i].op = "write" =>
                /\ outputContext.log[i].kind = "video"
                /\ outputContext.log[i].stream_index = videoInputStream

\* the calls of one kind in a writer's log
CallsOf(o, op) == {i \in 1..Len(o.log) : o.log[i].op = op /\ o.log[i].ok}

\* the sink is finalized: one trailer, after every packet written
Finalized(o) ==
    /\ Cardinality(CallsOf(o, "trailer")) = 1
    /\ \A t \in CallsOf(o, "trailer"), w \in CallsOf(o, "write") : w < t

\* C17: on the container-writing paths (testDemuxer, encode_video), once
\* the header is written the trailer is written exactly once before the
\* function returns, after the last packet write; no packet is written
\* before the header or after the trailer.
C17_TrailerWrittenOnce ==
    \A o \in {outputContext, oc} :
        /\ \A w \in CallsOf(o, "write") :
              /\ \E h \in CallsOf(o, "header") : h < w
              /\ \A t \in CallsOf(o, "trailer") : w < t
        /\ (pc \in {"returned", "exit0"} /\ HeaderWritten(o)) => Finalized(o)

\* C21: in the remux loop of testDemuxer every packet read is handed to the
\* container writer or released before the next packet is read; the packets
\* skipped by the first-100 rule and by the wait-for-key-frame rule do not
\* stay owned when the next read happens.
C21_SkippedPacketsReleased ==
    /\ unreleased = 0
    /\ pc = "td_read" => packet.st # "live"

\* the packets the writer accepted for the video output stream (stream 0 of
\* the output), as positions of the writer's log
VideoOutputWrites ==
    {i \in CallsOf(outputContext, "write") :
        outputContext.log[i].stream_index = 0}

\* C22: in testDemuxer, with packets numbered from 1 in read order, only
\* packets with ordinal in [100, 9999] are written to the output, no packet
\* is written before a key-flagged packet was read at ordinal >= 100, and the
\* first packet written for the video output stream is a video key frame
\* (checked on an input that was opened and probed and has a video stream).
C22_WindowAndKeyFrame ==
    (inputContext.probed /\ videoInputStream # -1) =>
        /\ \A i \in 1..Len(outputContext.log) :
              outputContext.log[i].op = "write" =>
                 /\ outputContext.log[i].ordinal >= SkipBelow
                 /\ outputContext.log[i].ordinal < StopAt
                 /\ hasKey
        /\ \A i \in VideoOutputWrites :
              (\A j \in VideoOutputWrites : i <= j) =>
                 /\ outputContext.log[i].kind = "video"
                 /\ outputContext.log[i].key

====
